---- MODULE Spec2Model ----
(***************************************************************************)
(* A model of the DEET debugger of proj-1 (debugger.rs, inferior.rs): the  *)
(* command loop of Debugger::run, the Inferior methods new / kill / wait / *)
(* cont / set_breakpoint / write_byte, and the traced child process they   *)
(* drive through ptrace and waitpid.                                       *)
(***************************************************************************)
EXTENDS Integers, Sequences, FiniteSets, TLC

(***************************************************************************)
(* Bounds of the model.                                                    *)
(***************************************************************************)
\* how many children Command::spawn may create in one session
MaxSpawn == 2
\* how many addresses the break command may push on Debugger.breakpoints
MaxBreaks == 2
\* the instruction counter of one cont() saturates here
MaxCount == 2
\* how many times the environment may disturb one session: a system call that
\* fails although the child is there, or a signal from outside the debugger
MaxFaults == 1
\* frames print_backtrace is counted to
MaxFrames == 4
\* the vectors dedup is called with: up to MaxLen elements of 0 .. MaxVal
MaxLen == 4
MaxVal == 2
MaxWord == 2
MaxGuesses == 7
NUM_INCORRECT_GUESSES == 5

(***************************************************************************)
(* Program constants.                                                      *)
(***************************************************************************)
\* size_of::<usize>() on x86-64
WordSize == 8
\* the int3 opcode 0xcc written by set_breakpoint
TrapByte == 204

(***************************************************************************)
(* The target: a small address space of NWords aligned words, and a        *)
(* program of one-byte instructions.                                       *)
(***************************************************************************)
NWords == 2
Addr == 0 .. (NWords * WordSize - 1)
Byte == 0 .. 255

\* opcodes of the target program (0x90 nop, 0xe2 loop, 0xf4 halt/exit)
OpNop == 144
OpLoop == 226
OpExit == 244
\* where execve leaves the program counter, and where the loop jumps back to
Entry == 7
LoopTarget == 7

\* the text of the executable, as execve maps it
Image ==
    [a \in Addr |->
        CASE a = 8 -> OpLoop
          [] a = 9 -> OpExit
          [] OTHER -> OpNop]

\* the addresses parse_address can yield for the break command
BreakAddrs == {6, 7, 9}

\* The symbols DwarfData resolves: f, g and main have debug information, the
\* rest of the code has none.
FuncOf(a) ==
    CASE a \in 0 .. 2 -> "f"
      [] a \in 3 .. 5 -> "g"
      [] a \in 6 .. 9 -> "main"
      [] OTHER -> "undefined"

\* The stack: three frames of two words each, the saved frame base at the frame
\* base and the return address 8 bytes above it.  GBp is the frame base while g
\* runs, called from f (FBp), called from main (MainBp), whose caller has no
\* debug information and no frame base.
GBp == 40
FBp == 56
MainBp == 72
RetInF == 1
RetInMain == 8
RetInStart == 12
MainStack ==
    [a \in {GBp, GBp + 8, FBp, FBp + 8, MainBp, MainBp + 8} |->
        CASE a = GBp -> FBp
          [] a = GBp + 8 -> RetInF
          [] a = FBp -> MainBp
          [] a = FBp + 8 -> RetInMain
          [] a = MainBp -> 0
          [] OTHER -> RetInStart]
\* what a word of code is when it is taken for an address: no address of the child
CodeWord == 999

Pid == 1 .. MaxSpawn
NoPid == 0

(***************************************************************************)
(* 64-bit words as eight bytes, least significant first, and the bit       *)
(* operations write_byte uses on them.                                     *)
(***************************************************************************)
RECURSIVE BitAnd(_, _)
BitAnd(a, b) ==
    IF a = 0 \/ b = 0 THEN 0
    ELSE ((a % 2) * (b % 2)) + 2 * BitAnd(a \div 2, b \div 2)

RECURSIVE BitOr(_, _)
BitOr(a, b) ==
    IF a = 0 THEN b
    ELSE IF b = 0 THEN a
    ELSE (IF (a % 2) + (b % 2) > 0 THEN 1 ELSE 0) + 2 * BitOr(a \div 2, b \div 2)

WordAnd(v, w) == [k \in 1 .. WordSize |-> BitAnd(v[k], w[k])]
WordOr(v, w) == [k \in 1 .. WordSize |-> BitOr(v[k], w[k])]
WordNot(w) == [k \in 1 .. WordSize |-> 255 - w[k]]
\* a byte widened to u64
WordOf(b) == [k \in 1 .. WordSize |-> IF k = 1 THEN b ELSE 0]
\* w << 8 * n and w >> 8 * n, for 0 <= n < 8
Shl(w, n) == [k \in 1 .. WordSize |-> IF k - n >= 1 THEN w[k - n] ELSE 0]
Shr(w, n) == [k \in 1 .. WordSize |-> IF k + n <= WordSize THEN w[k + n] ELSE 0]

\* addr & -(size_of::<usize>())
align_addr_to_word(addr) == addr - (addr % WordSize)

\* ptrace::read and ptrace::write of one aligned word of a memory m
PeekWord(m, aligned) == [k \in 1 .. WordSize |-> m[aligned + k - 1]]
PokeWord(m, aligned, w) ==
    [a \in Addr |->
        IF a >= aligned /\ a < aligned + WordSize THEN w[a - aligned + 1] ELSE m[a]]

\* write_byte returning the low byte of the word whatever the offset
OrigByte_NoShift(word, byte_offset) == WordAnd(word, WordOf(255))[1]
\* write_byte clearing the low byte of the word whatever the offset
MaskedWord_FirstByte(word, byte_offset) == WordAnd(word, WordNot(WordOf(255)))
\* write_byte or-ing the value into the word without clearing the byte first
UpdatedWord_NoMask(word, byte_offset, val) == WordOr(word, Shl(WordOf(val), byte_offset))

\* the three words write_byte computes from the word it read
OrigByte(word, byte_offset) == WordAnd(Shr(word, byte_offset), WordOf(255))[1]
MaskedWord(word, byte_offset) == WordAnd(word, WordNot(Shl(WordOf(255), byte_offset)))
UpdatedWord(word, byte_offset, val) ==
    WordOr(MaskedWord(word, byte_offset), Shl(WordOf(val), byte_offset))

\* write_byte on memory m: the memory it leaves and the byte it returns
WriteByteMem(m, addr, val) ==
    LET aligned_addr == align_addr_to_word(addr)
        byte_offset == addr - aligned_addr
        word == PeekWord(m, aligned_addr)
    IN PokeWord(m, aligned_addr, UpdatedWord(word, byte_offset, val))

WriteByteOrig(m, addr) ==
    LET aligned_addr == align_addr_to_word(addr)
        byte_offset == addr - aligned_addr
    IN OrigByte(PeekWord(m, aligned_addr), byte_offset)

(***************************************************************************)
(* State.                                                                  *)
(***************************************************************************)
VARIABLES
    dpc,            \* where the debugger's single thread is
    cmd,            \* the command Debugger::run is handling
    breakpoints,    \* Debugger.breakpoints
    inferior,       \* Debugger.inferior: the pid of its Inferior, or NoPid for None
    self,           \* the Inferior the running method was called on
    table,          \* Inferior.breakpoints_original_instr, per Inferior
    child_status,   \* the exit status std::process::Child caches, per Inferior
    rip_addr,       \* cont's local rip_addr
    idx,            \* position of the for loop of Inferior::new in breakpoints
    sb_addr,        \* set_breakpoint's argument
    sb_ret,         \* where set_breakpoint returns to
    status,         \* the Result of the last Inferior::wait
    result,         \* the Result cont returned
    out,            \* the line the last step printed, "" when it printed none
    proc,           \* the operating system's view of each child
    spawned,        \* how many children were spawned so far
    faults,         \* how many times the environment has disturbed the session
    io,             \* history: how the tracing requests of the last step ended
    sbcalls,        \* history: the addresses Inferior::new called set_breakpoint for
    ran,            \* history: instructions the target ran since cont was entered
    lastexec,       \* history: the last instruction the target ran
    genuine,        \* history: cont found the target parked behind a trap it executed
    clean,          \* history: no request of the running cont has failed
    pre,            \* history: the last write_byte call, and what it found
    bt,             \* print_backtrace's locals, and what it has emitted so far
    over,           \* history: cont has returned Exited or Signaled, per Inferior
    dd,             \* dedup: its argument, its locals, and the vector it was called with
    memok,          \* history: no write_byte on the Inferior has failed, per Inferior
    hm              \* hangman: the locals of main, and the line it printed last

vars ==
    << dpc, cmd, breakpoints, inferior, self, table, child_status, rip_addr, idx,
       sb_addr, sb_ret, status, result, out, proc, spawned, faults, io, sbcalls,
       ran, lastexec, genuine, clean, pre, bt, over, dd, memok, hm >>

dbg_locals == << rip_addr, idx, sb_addr, sb_ret >>
history == << sbcalls, ran, lastexec, genuine, clean, pre >>

EmptyTable == << >>
NoExec == [addr |-> 0, op |-> 0]
NoCall == [fn |-> "", addr |-> 0, val |-> 0, key |-> FALSE, mem |-> Image]
\* write_byte(addr, val) called by fn on the memory and table of child p
Call(fn, p, addr, val) ==
    [fn |-> fn, addr |-> addr, val |-> val, key |-> addr \in DOMAIN table[p],
     mem |-> proc[p].mem]
NoStatus == [kind |-> "None", sig |-> "", rip |-> 0]
ErrStatus == [kind |-> "Err", sig |-> "", rip |-> 0]
\* dedup not called
NoGame ==
    [pc |-> "none", secret_word_chars |-> << >>, revealed_indexes |-> << >>,
     guessed_so_far |-> << >>, num_guess_left |-> 0, printed |-> ""]
NoDedup == [pc |-> "none", orig |-> << >>, v |-> << >>, index |-> 0, seen |-> {}]
\* print_backtrace not running: no instruction pointer, no frame emitted
NoWalk == [ip |-> 0, bp |-> 0, n |-> 0, last |-> "", err |-> FALSE]
Stopped(signal, rip) == [kind |-> "Stopped", sig |-> signal, rip |-> rip]
Exited == [kind |-> "Exited", sig |-> "", rip |-> 0]
Signaled(signal) == [kind |-> "Signaled", sig |-> signal, rip |-> 0]

\* a child that does not exist yet, and one that was waited for
Unborn ==
    [st |-> "unborn", how |-> "", sig |-> "", notified |-> FALSE, rip |-> Entry,
     mem |-> Image, trapped |-> FALSE, rbp |-> MainBp, stack |-> MainStack]
Reaped == [Unborn EXCEPT !.st = "reaped"]
Zombie(how, signal) == [Unborn EXCEPT !.st = "zombie", !.how = how, !.sig = signal]

Live(p) == proc[p].st \in {"exec", "run", "step", "stopped"}
Executing(p) == proc[p].st \in {"exec", "run", "step"}
\* a ptrace request is served only for a tracee in ptrace-stop
PtraceStopped(p) == proc[p].st = "stopped"

Init ==
    /\ dpc = "prompt"
    /\ cmd = "none"
    /\ breakpoints = << >>
    /\ inferior = NoPid
    /\ self = NoPid
    /\ table = [p \in Pid |-> EmptyTable]
    /\ child_status = [p \in Pid |-> FALSE]
    /\ rip_addr = 0
    /\ idx = 0
    /\ sb_addr = 0
    /\ sb_ret = ""
    /\ status = NoStatus
    /\ result = NoStatus
    /\ out = ""
    /\ proc = [p \in Pid |-> Unborn]
    /\ spawned = 0
    /\ faults = 0
    /\ io = "none"
    /\ sbcalls = << >>
    /\ ran = 0
    /\ lastexec = NoExec
    /\ genuine = FALSE
    /\ clean = TRUE
    /\ pre = NoCall
    /\ bt = NoWalk
    /\ over = [p \in Pid |-> FALSE]
    /\ dd = NoDedup
    /\ memok = [p \in Pid |-> TRUE]
    /\ hm = NoGame

(***************************************************************************)
(* Disturbances.  A request that fails because the child is not there (or  *)
(* not stopped) is the operating system's answer and costs nothing; one    *)
(* that fails although it could have been served, and a signal from        *)
(* outside, are disturbances, of which a session sees at most MaxFaults.   *)
(***************************************************************************)
MayFail == faults < MaxFaults
Charge(disturbed) == faults' = IF disturbed THEN faults + 1 ELSE faults

(***************************************************************************)
(* Inferior::wait: waitpid, then getregs for a stop.  o is how the two     *)
(* system calls end: "ok", "waitpid_err" or "getregs_err".                 *)
(***************************************************************************)
\* waitpid has something to return without blocking
HasEvent(p) ==
    \/ proc[p].st = "zombie"
    \/ proc[p].st = "stopped" /\ ~proc[p].notified

\* waitpid(pid, None) returns: with an event, with ECHILD for a child that was
\* already waited for, or interrupted
WaitOutcomes == {"ok", "waitpid_err", "getregs_err"}

WaitReturns(p, o) ==
    \/ o = "waitpid_err" /\ MayFail
    \/ o = "ok" /\ (HasEvent(p) \/ proc[p].st = "reaped")
    \/ o = "getregs_err" /\ MayFail /\ proc[p].st = "stopped" /\ ~proc[p].notified

WaitStatus(p, o) ==
    CASE o # "ok" -> ErrStatus
      [] proc[p].st = "zombie" /\ proc[p].how = "Exited" -> Exited
      [] proc[p].st = "zombie" /\ proc[p].how = "Signaled" -> Signaled(proc[p].sig)
      [] proc[p].st = "stopped" -> Stopped(proc[p].sig, proc[p].rip)
      [] OTHER -> ErrStatus

WaitProc(p, o) ==
    CASE o = "waitpid_err" -> proc[p]
      [] proc[p].st = "zombie" -> Reaped
      [] proc[p].st = "stopped" -> [proc[p] EXCEPT !.notified = TRUE]
      [] OTHER -> proc[p]

(***************************************************************************)
(* std::process::Child::try_wait: waitpid with WNOHANG.  It answers        *)
(* Ok(None) for a child with nothing to report, takes (and caches in the   *)
(* Child) whatever status is pending, and fails once the child was reaped  *)
(* through nix's waitpid.                                                  *)
(***************************************************************************)
TryWait(p) ==
    CASE child_status[p] -> "OkSome"
      [] proc[p].st \in {"unborn", "reaped"} -> "Err"
      [] HasEvent(p) -> "OkSome"
      [] OTHER -> "OkNone"

TryWaitProc(p) ==
    IF child_status[p] \/ ~HasEvent(p) THEN proc[p] ELSE WaitProc(p, "ok")

TryWaitCached(p) == child_status[p] \/ (proc[p].st \notin {"unborn", "reaped"} /\ HasEvent(p))

(***************************************************************************)
(* Inferior::write_byte and Inferior::set_breakpoint.                      *)
(***************************************************************************)
\* how ptrace::read and ptrace::write of write_byte can end for child p
WriteByteOutcomes(p) ==
    IF ~PtraceStopped(p) THEN {"read_err"}
    ELSE IF MayFail THEN {"ok", "read_err", "write_err"}
    ELSE {"ok"}

\* the process after write_byte(addr, val) ending as o
WriteByteProc(p, addr, val, o) ==
    IF o = "ok"
    THEN [proc[p] EXCEPT !.mem = WriteByteMem(proc[p].mem, addr, val)]
    ELSE proc[p]

\* insert(addr, orig_instr) without the contains_key test
TableInsert_Overwrite(t, addr, orig_instr) ==
    [a \in DOMAIN t \cup {addr} |-> IF a = addr THEN orig_instr ELSE t[a]]

\* if !contains_key(&addr) { insert(addr, orig_instr) }
TableInsert(t, addr, orig_instr) ==
    IF addr \in DOMAIN t
    THEN t
    ELSE [a \in DOMAIN t \cup {addr} |-> IF a = addr THEN orig_instr ELSE t[a]]

\* set_breakpoint recording the address whatever write_byte returned
SetBreakpointTable_Always(p, addr, o) ==
    TableInsert(table[p], addr, WriteByteOrig(proc[p].mem, addr))

\* the table after set_breakpoint(addr) whose write_byte ended as o
SetBreakpointTable(p, addr, o) ==
    IF o = "ok"
    THEN TableInsert(table[p], addr, WriteByteOrig(proc[p].mem, addr))
    ELSE table[p]

SetBreakpoint ==
    /\ UNCHANGED << bt, over, dd, hm >>
    /\ dpc = "set_breakpoint"
    /\ IF TryWait(self) = "OkNone"
       THEN \E o \in WriteByteOutcomes(self) :
                /\ proc' = [proc EXCEPT ![self] = WriteByteProc(self, sb_addr, TrapByte, o)]
                /\ table' = [table EXCEPT ![self] = SetBreakpointTable(self, sb_addr, o)]
                /\ out' = IF o = "ok" THEN "" ELSE "Failed to set the breakpoint"
                /\ io' = o
                /\ clean' = (clean /\ o = "ok")
                /\ Charge(o # "ok" /\ PtraceStopped(self))
                /\ pre' = Call("set_breakpoint", self, sb_addr, TrapByte)
                /\ memok' = [memok EXCEPT ![self] = memok[self] /\ o = "ok"]
                /\ UNCHANGED child_status
       ELSE /\ proc' = [proc EXCEPT ![self] = TryWaitProc(self)]
            /\ child_status' = [child_status EXCEPT ![self] = TryWaitCached(self)]
            /\ out' = ""
            /\ io' = "not_running"
            /\ clean' = FALSE
            /\ pre' = NoCall
            /\ UNCHANGED << table, faults, memok >>
    /\ sbcalls' = IF sb_ret = "new_loop" THEN Append(sbcalls, sb_addr) ELSE sbcalls
    /\ dpc' = sb_ret
    /\ UNCHANGED << cmd, breakpoints, inferior, self, rip_addr, idx, sb_addr, sb_ret,
                    status, result, spawned, ran, lastexec, genuine >>

(***************************************************************************)
(* Back to the prompt of Debugger::run: the locals of the handler are gone.*)
(***************************************************************************)
ToPrompt ==
    /\ dpc' = "prompt"
    /\ cmd' = "none"
    /\ self' = NoPid
    /\ rip_addr' = 0
    /\ idx' = 0
    /\ sb_addr' = 0
    /\ sb_ret' = ""
    /\ status' = NoStatus
    /\ result' = NoStatus
    /\ sbcalls' = << >>
    /\ ran' = 0
    /\ lastexec' = NoExec
    /\ genuine' = FALSE
    /\ clean' = TRUE
    /\ pre' = NoCall

(***************************************************************************)
(* Inferior::kill.                                                         *)
(***************************************************************************)
\* where Debugger::run goes on after kill returned
AfterKill == IF cmd = "run" THEN "new_spawn" ELSE "exited"

\* child.kill() sends SIGKILL unless the Child has cached a status or the child
\* was reaped
ChildKillOk(p) == ~child_status[p] /\ proc[p].st \notin {"unborn", "reaped"}

KillProc(p) ==
    IF Live(p) THEN Zombie("Signaled", "SIGKILL") ELSE proc[p]

\* if let Ok(()) = self.child.kill() { println!(..); .. }.  With a status cached
\* in the Child no signal is sent, and kill() is Err in the standard library up
\* to 1.71 and Ok(()) in later ones
Kill ==
    /\ UNCHANGED << bt, over, dd, memok, hm >>
    /\ dpc = "kill"
    /\ IF ChildKillOk(self)
       THEN /\ proc' = [proc EXCEPT ![self] = KillProc(self)]
            /\ out' = "Killing running inferior"
            /\ io' = "ok"
            /\ dpc' = "kill_wait"
       ELSE /\ \/ /\ out' = ""
                  /\ io' = "err"
                  /\ dpc' = AfterKill
               \/ /\ child_status[self]
                  /\ out' = "Killing running inferior"
                  /\ io' = "not_sent"
                  /\ dpc' = "kill_wait"
            /\ UNCHANGED proc
    /\ UNCHANGED << cmd, breakpoints, inferior, self, table, child_status, dbg_locals,
                    status, result, spawned, faults, history >>

\* self.wait(None).expect(..)
KillWait ==
    /\ UNCHANGED << bt, over, dd, memok, hm >>
    /\ dpc = "kill_wait"
    /\ \E o \in WaitOutcomes :
        /\ WaitReturns(self, o)
        /\ Charge(o # "ok")
        /\ status' = WaitStatus(self, o)
        /\ proc' = [proc EXCEPT ![self] = WaitProc(self, o)]
        /\ io' = IF WaitStatus(self, o).kind = "Err" THEN "err" ELSE "ok"
        /\ dpc' = IF WaitStatus(self, o).kind = "Err" THEN "aborted" ELSE AfterKill
    /\ out' = ""
    /\ UNCHANGED << cmd, breakpoints, inferior, self, table, child_status, dbg_locals,
                    result, spawned, history >>

(***************************************************************************)
(* Inferior::new.                                                          *)
(***************************************************************************)
\* cmd.spawn(): the child exists and is on its way to execve, or spawn fails
\* and new returns None
NewSpawn ==
    /\ UNCHANGED << bt, over, dd, memok, hm >>
    /\ dpc = "new_spawn"
    /\ spawned < MaxSpawn
    /\ \/ /\ spawned' = spawned + 1
          /\ proc' = [proc EXCEPT ![spawned + 1] = [Unborn EXCEPT !.st = "exec"]]
          /\ table' = [table EXCEPT ![spawned + 1] = EmptyTable]
          /\ self' = spawned + 1
          /\ sbcalls' = << >>
          /\ io' = "ok"
          /\ out' = ""
          /\ dpc' = "new_wait"
          /\ UNCHANGED faults
          /\ UNCHANGED << cmd, rip_addr, idx, sb_addr, sb_ret, status, result, ran,
                          lastexec, genuine, clean, pre >>
       \/ /\ MayFail
          /\ Charge(TRUE)
          /\ io' = "err"
          /\ out' = "Error starting subprocess"
          /\ ToPrompt
          /\ UNCHANGED << spawned, proc, table >>
    /\ UNCHANGED << breakpoints, inferior, child_status >>

\* inf.wait(None).ok()?
NewWait ==
    /\ UNCHANGED << bt, over, dd, memok, hm >>
    /\ dpc = "new_wait"
    /\ \E o \in WaitOutcomes :
        /\ WaitReturns(self, o)
        /\ Charge(o # "ok")
        /\ status' = WaitStatus(self, o)
        /\ proc' = [proc EXCEPT ![self] = WaitProc(self, o)]
        /\ io' = IF WaitStatus(self, o).kind = "Err" THEN "err" ELSE "ok"
    /\ out' = ""
    /\ dpc' = "new_match"
    /\ UNCHANGED << cmd, breakpoints, inferior, self, table, child_status, dbg_locals,
                    result, spawned, history >>

\* new accepting a stop by any signal
NewAccepts_AnyStop(st) == st.kind = "Stopped"

\* the match of new on the first status: only a SIGTRAP stop goes on
NewAccepts(st) == st.kind = "Stopped" /\ st.sig = "SIGTRAP"

\* the match; when it yields None the local inf is dropped, and Debugger::run
\* prints and goes back to the prompt with self.inferior as it was
NewMatch ==
    /\ UNCHANGED << bt, over, dd, memok, hm >>
    /\ dpc = "new_match"
    /\ IF NewAccepts(status)
       THEN /\ idx' = 1
            /\ dpc' = "new_loop"
            /\ out' = ""
            /\ UNCHANGED << cmd, self, rip_addr, sb_addr, sb_ret, status, result, table,
                            history >>
       ELSE /\ table' = [table EXCEPT ![self] = EmptyTable]
            /\ out' = "Error starting subprocess"
            /\ ToPrompt
    /\ io' = "none"
    /\ UNCHANGED << breakpoints, inferior, child_status, proc, spawned, faults >>

\* for addr in breakpoints { inf.set_breakpoint(*addr) }; Some(inf), which
\* Debugger::run stores in self.inferior, dropping the Inferior it held
NewLoop ==
    /\ UNCHANGED << bt, over, dd, memok, hm >>
    /\ dpc = "new_loop"
    /\ IF idx <= Len(breakpoints)
       THEN /\ sb_addr' = breakpoints[idx]
            /\ sb_ret' = "new_loop"
            /\ idx' = idx + 1
            /\ dpc' = "set_breakpoint"
            /\ UNCHANGED << inferior, table, child_status >>
       ELSE /\ inferior' = self
            /\ table' = [p \in Pid |-> IF p = inferior THEN EmptyTable ELSE table[p]]
            /\ child_status' = [p \in Pid |-> IF p = inferior THEN FALSE ELSE child_status[p]]
            /\ dpc' = "cont_getregs"
            /\ UNCHANGED << sb_addr, sb_ret, idx >>
    /\ out' = ""
    /\ io' = "none"
    /\ UNCHANGED << cmd, breakpoints, self, rip_addr, status, result, proc, spawned, faults,
                    history >>

(***************************************************************************)
(* Inferior::cont.                                                         *)
(***************************************************************************)
\* how one ptrace request on child p can end
PtraceOutcomes(p) ==
    IF ~PtraceStopped(p) THEN {"err"}
    ELSE IF MayFail THEN {"ok", "err"}
    ELSE {"ok"}

\* cont returns r to Debugger::run
ContReturns(r) ==
    /\ result' = r
    /\ dpc' = "print_result"

\* ptrace::getregs(..)?, and the lookup of rip - 1 in the table
ContGetregs ==
    /\ UNCHANGED << bt, over, dd, memok, hm >>
    /\ dpc = "cont_getregs"
    /\ \E o \in PtraceOutcomes(self) :
        /\ io' = o
        /\ clean' = (o = "ok")
        /\ Charge(o # "ok" /\ PtraceStopped(self))
        /\ IF o = "ok"
           THEN /\ rip_addr' = proc[self].rip
                /\ genuine' = (proc[self].trapped /\ (proc[self].rip - 1) \in DOMAIN table[self])
                /\ dpc' = IF (proc[self].rip - 1) \in DOMAIN table[self]
                          THEN "cont_restore" ELSE "cont_cont"
                /\ UNCHANGED result
           ELSE /\ ContReturns(ErrStatus)
                /\ genuine' = FALSE
                /\ UNCHANGED rip_addr
    /\ ran' = 0
    /\ lastexec' = NoExec
    /\ pre' = NoCall
    /\ out' = ""
    /\ UNCHANGED << cmd, breakpoints, inferior, self, table, child_status, idx, sb_addr,
                    sb_ret, status, proc, spawned, sbcalls >>

\* self.write_byte(rip_addr - 1, instr); a failure is printed and cont goes on
ContRestore ==
    /\ UNCHANGED << bt, over, dd, hm >>
    /\ dpc = "cont_restore"
    /\ \E o \in WriteByteOutcomes(self) :
        /\ proc' = [proc EXCEPT
                      ![self] = WriteByteProc(self, rip_addr - 1, table[self][rip_addr - 1], o)]
        /\ pre' = Call("cont", self, rip_addr - 1, table[self][rip_addr - 1])
        /\ memok' = [memok EXCEPT ![self] = memok[self] /\ o = "ok"]
        /\ out' = IF o = "ok" THEN "" ELSE "Failed to rewind the register"
        /\ io' = o
        /\ clean' = (clean /\ o = "ok")
        /\ Charge(o # "ok" /\ PtraceStopped(self))
    /\ dpc' = "cont_setregs"
    /\ UNCHANGED << cmd, breakpoints, inferior, self, table, child_status, dbg_locals,
                    status, result, spawned, sbcalls, ran, lastexec, genuine >>

\* registers.rip = rip_addr - 1; ptrace::setregs(..).expect(..)
ContSetregs ==
    /\ UNCHANGED << bt, over, dd, memok, hm >>
    /\ dpc = "cont_setregs"
    /\ \E o \in PtraceOutcomes(self) :
        /\ io' = o
        /\ clean' = (clean /\ o = "ok")
        /\ Charge(o # "ok" /\ PtraceStopped(self))
        /\ IF o = "ok"
           THEN /\ proc' = [proc EXCEPT ![self].rip = rip_addr - 1]
                /\ dpc' = "cont_step"
           ELSE /\ dpc' = "aborted"
                /\ UNCHANGED proc
    /\ out' = ""
    /\ UNCHANGED << cmd, breakpoints, inferior, self, table, child_status, dbg_locals,
                    status, result, spawned, sbcalls, ran, lastexec, genuine, pre >>

\* the child resumed by PTRACE_SINGLESTEP or PTRACE_CONT
Resumed(p, mode) ==
    [proc[p] EXCEPT !.st = mode, !.sig = "", !.notified = FALSE, !.trapped = FALSE]

\* ptrace::step(self.pid(), None)?
ContStep ==
    /\ UNCHANGED << bt, over, dd, memok, hm >>
    /\ dpc = "cont_step"
    /\ \E o \in PtraceOutcomes(self) :
        /\ io' = o
        /\ clean' = (clean /\ o = "ok")
        /\ Charge(o # "ok" /\ PtraceStopped(self))
        /\ IF o = "ok"
           THEN /\ proc' = [proc EXCEPT ![self] = Resumed(self, "step")]
                /\ dpc' = "cont_stepwait"
                /\ UNCHANGED result
           ELSE /\ ContReturns(ErrStatus)
                /\ UNCHANGED proc
    /\ out' = ""
    /\ UNCHANGED << cmd, breakpoints, inferior, self, table, child_status, dbg_locals,
                    status, spawned, sbcalls, ran, lastexec, genuine, pre >>

\* cont going on to the continue without putting the trap back
AfterStep_NoRearm(st) ==
    CASE st.kind = "Err" -> "aborted"
      [] st.kind = "Exited" -> "print_result"
      [] st.kind = "Signaled" -> "cont_cont"
      [] st.kind = "Stopped" /\ st.sig = "SIGTRAP" -> "cont_cont"
      [] OTHER -> "aborted"

\* cont going on to the continue after the step ended the process
AfterStep_ExitedGoesOn(st) ==
    CASE st.kind = "Err" -> "aborted"
      [] st.kind = "Exited" -> "cont_cont"
      [] st.kind = "Signaled" -> "cont_cont"
      [] st.kind = "Stopped" /\ st.sig = "SIGTRAP" -> "set_breakpoint"
      [] OTHER -> "aborted"

\* cont re-arming and going on after a stop by any signal
AfterStep_AnyStopGoesOn(st) ==
    CASE st.kind = "Err" -> "aborted"
      [] st.kind = "Exited" -> "print_result"
      [] st.kind = "Signaled" -> "cont_cont"
      [] st.kind = "Stopped" -> "set_breakpoint"
      [] OTHER -> "aborted"

\* where cont goes after the wait that follows the single step: st is the
\* Result of that wait
AfterStep(st) ==
    CASE st.kind = "Err" -> "aborted"
      [] st.kind = "Exited" -> "print_result"
      [] st.kind = "Signaled" -> "cont_cont"
      [] st.kind = "Stopped" /\ st.sig = "SIGTRAP" -> "set_breakpoint"
      [] OTHER -> "aborted"

\* match self.wait(None) { .. } after the single step
ContStepWait ==
    /\ UNCHANGED << bt, over, dd, memok, hm >>
    /\ dpc = "cont_stepwait"
    /\ \E o \in WaitOutcomes :
        /\ WaitReturns(self, o)
        /\ Charge(o # "ok")
        /\ status' = WaitStatus(self, o)
        /\ proc' = [proc EXCEPT ![self] = WaitProc(self, o)]
        /\ io' = IF WaitStatus(self, o).kind = "Err" THEN "err" ELSE "ok"
        /\ clean' = (clean /\ WaitStatus(self, o).kind # "Err")
        /\ dpc' = AfterStep(WaitStatus(self, o))
        /\ result' = IF AfterStep(WaitStatus(self, o)) = "print_result"
                     THEN WaitStatus(self, o) ELSE result
        /\ out' = IF WaitStatus(self, o).kind = "Signaled" THEN "Signaled" ELSE ""
        /\ IF AfterStep(WaitStatus(self, o)) = "set_breakpoint"
           THEN sb_addr' = rip_addr - 1 /\ sb_ret' = "cont_cont"
           ELSE UNCHANGED << sb_addr, sb_ret >>
    /\ UNCHANGED << cmd, breakpoints, inferior, self, table, child_status, rip_addr, idx,
                    spawned, sbcalls, ran, lastexec, genuine, pre >>

\* ptrace::cont(self.pid(), None)?
ContCont ==
    /\ UNCHANGED << bt, over, dd, memok, hm >>
    /\ dpc = "cont_cont"
    /\ \E o \in PtraceOutcomes(self) :
        /\ io' = o
        /\ clean' = (clean /\ o = "ok")
        /\ Charge(o # "ok" /\ PtraceStopped(self))
        /\ IF o = "ok"
           THEN /\ proc' = [proc EXCEPT ![self] = Resumed(self, "run")]
                /\ dpc' = "cont_wait"
                /\ UNCHANGED result
           ELSE /\ ContReturns(ErrStatus)
                /\ UNCHANGED proc
    /\ lastexec' = NoExec
    /\ out' = ""
    /\ UNCHANGED << cmd, breakpoints, inferior, self, table, child_status, dbg_locals,
                    status, spawned, sbcalls, ran, genuine, pre >>

\* self.wait(None), the value of cont
ContWait ==
    /\ UNCHANGED << bt, over, dd, memok, hm >>
    /\ dpc = "cont_wait"
    /\ \E o \in WaitOutcomes :
        /\ WaitReturns(self, o)
        /\ Charge(o # "ok")
        /\ status' = WaitStatus(self, o)
        /\ proc' = [proc EXCEPT ![self] = WaitProc(self, o)]
        /\ io' = IF WaitStatus(self, o).kind = "Err" THEN "err" ELSE "ok"
        /\ clean' = (clean /\ WaitStatus(self, o).kind # "Err")
        /\ ContReturns(WaitStatus(self, o))
    /\ out' = ""
    /\ UNCHANGED << cmd, breakpoints, inferior, self, table, child_status, dbg_locals,
                    spawned, sbcalls, ran, lastexec, genuine, pre >>

(***************************************************************************)
(* Inferior::print_backtrace.                                              *)
(***************************************************************************)
\* ptrace::read of the word at address a of child q can be served
Readable(q, a) ==
    \/ a \in DOMAIN q.stack
    \/ a \in Addr /\ (a + WordSize - 1) \in Addr

\* the word ptrace::read returns, as usize
ReadWord(q, a) == IF a \in DOMAIN q.stack THEN q.stack[a] ELSE CodeWord

\* how the two ptrace::read of one turn of the loop can end for child p
ReadOutcomes(p) ==
    IF ~PtraceStopped(p) \/ ~Readable(proc[p], bt.bp + 8) \/ ~Readable(proc[p], bt.bp)
    THEN {"err"}
    ELSE IF MayFail THEN {"ok", "err"}
    ELSE {"ok"}

\* ptrace::getregs(..)?.rip and ptrace::getregs(..)?.rbp
BtGetregs ==
    /\ UNCHANGED << dd, memok, hm >>
    /\ dpc = "bt_getregs"
    /\ \E o \in PtraceOutcomes(self) :
        /\ io' = o
        /\ Charge(o # "ok" /\ PtraceStopped(self))
        /\ IF o = "ok"
           THEN /\ bt' = [NoWalk EXCEPT !.ip = proc[self].rip, !.bp = proc[self].rbp]
                /\ dpc' = "bt_frame"
           ELSE /\ bt' = [NoWalk EXCEPT !.err = TRUE]
                /\ dpc' = "bt_done"
    /\ out' = ""
    /\ UNCHANGED << cmd, breakpoints, inferior, self, table, child_status, dbg_locals,
                    status, result, proc, spawned, history, over >>

\* the frame is resolved and printed; main ends the loop
EmitFrame(w) ==
    [w EXCEPT !.n = IF w.n < MaxFrames THEN w.n + 1 ELSE w.n, !.last = FuncOf(w.ip)]

\* the loop without its break at main
AfterFrame_NoBreak(function) == "bt_read"
\* the loop ending at a frame the resolver does not know
AfterFrame_UndefinedEnds(function) ==
    IF function \in {"main", "undefined"} THEN "bt_done" ELSE "bt_read"

AfterFrame(function) == IF function = "main" THEN "bt_done" ELSE "bt_read"

BtFrame ==
    /\ UNCHANGED << dd, memok, hm >>
    /\ dpc = "bt_frame"
    /\ bt' = EmitFrame(bt)
    /\ out' = FuncOf(bt.ip)
    /\ io' = "none"
    /\ dpc' = AfterFrame(FuncOf(bt.ip))
    /\ UNCHANGED << cmd, breakpoints, inferior, self, table, child_status, dbg_locals,
                    status, result, proc, spawned, faults, history, over >>

\* instruction_ptr = ptrace::read(base_ptr + 8)?; base_ptr = ptrace::read(base_ptr)?
BtRead ==
    /\ UNCHANGED << dd, memok, hm >>
    /\ dpc = "bt_read"
    /\ \E o \in ReadOutcomes(self) :
        /\ io' = o
        /\ Charge(o # "ok" /\ PtraceStopped(self) /\ Readable(proc[self], bt.bp + 8)
                  /\ Readable(proc[self], bt.bp))
        /\ IF o = "ok"
           THEN /\ bt' = [bt EXCEPT !.ip = ReadWord(proc[self], bt.bp + 8),
                                    !.bp = ReadWord(proc[self], bt.bp)]
                /\ dpc' = "bt_frame"
           ELSE /\ bt' = [bt EXCEPT !.err = TRUE]
                /\ dpc' = "bt_done"
    /\ out' = ""
    /\ UNCHANGED << cmd, breakpoints, inferior, self, table, child_status, dbg_locals,
                    status, result, proc, spawned, history, over >>

\* inf.print_backtrace(..).ok(): Debugger::run drops the Result
BtReturn ==
    /\ UNCHANGED << dd, memok, hm >>
    /\ dpc = "bt_done"
    /\ bt' = NoWalk
    /\ out' = ""
    /\ io' = "none"
    /\ ToPrompt
    /\ UNCHANGED << breakpoints, inferior, table, child_status, proc, spawned, faults, over >>

(***************************************************************************)
(* Debugger::print_inferior_run_result and the commands of Debugger::run.  *)
(***************************************************************************)
ResultLine(r) ==
    CASE r.kind = "Stopped" -> "Child stopped"
      [] r.kind = "Exited" -> "Child exited"
      [] r.kind = "Signaled" -> "Signaled"
      [] OTHER -> "Error continuing the program"

PrintResult ==
    /\ dpc = "print_result"
    /\ over' = [p \in Pid |-> over[p] \/ (p = self /\ result.kind \in {"Exited", "Signaled"})]
    /\ UNCHANGED << bt, dd, memok, hm >>
    /\ out' = ResultLine(result)
    /\ io' = "none"
    /\ ToPrompt
    /\ UNCHANGED << breakpoints, inferior, table, child_status, proc, spawned, faults >>

\* DebuggerCommand::Run
CmdRun ==
    /\ UNCHANGED << bt, over, dd, memok, hm >>
    /\ dpc = "prompt"
    /\ spawned < MaxSpawn
    /\ cmd' = "run"
    /\ IF inferior # NoPid
       THEN self' = inferior /\ dpc' = "kill"
       ELSE self' = NoPid /\ dpc' = "new_spawn"
    /\ out' = ""
    /\ io' = "none"
    /\ UNCHANGED << breakpoints, inferior, table, child_status, dbg_locals, status, result,
                    proc, spawned, faults, history >>

\* DebuggerCommand::Cont
CmdCont ==
    /\ UNCHANGED << bt, over, dd, memok, hm >>
    /\ dpc = "prompt"
    /\ IF inferior # NoPid
       THEN /\ cmd' = "cont"
            /\ self' = inferior
            /\ dpc' = "cont_getregs"
            /\ out' = ""
       ELSE /\ out' = "No child process under debugging"
            /\ UNCHANGED << cmd, self, dpc >>
    /\ io' = "none"
    /\ UNCHANGED << breakpoints, inferior, table, child_status, dbg_locals, status, result,
                    proc, spawned, faults, history >>

\* DebuggerCommand::Backtrace
CmdBacktrace ==
    /\ UNCHANGED << dd, memok, hm >>
    /\ dpc = "prompt"
    /\ IF inferior # NoPid
       THEN /\ cmd' = "backtrace"
            /\ self' = inferior
            /\ dpc' = "bt_getregs"
            /\ out' = ""
       ELSE /\ out' = "No child process under debugging"
            /\ UNCHANGED << cmd, self, dpc >>
    /\ io' = "none"
    /\ UNCHANGED << breakpoints, inferior, table, child_status, dbg_locals, status, result,
                    proc, spawned, faults, history, bt, over >>

\* DebuggerCommand::BreakPoint with an argument parse_address resolves to addr
CmdBreak(addr) ==
    /\ UNCHANGED << bt, over, dd, memok, hm >>
    /\ dpc = "prompt"
    /\ Len(breakpoints) < MaxBreaks
    /\ cmd' = "break"
    /\ sb_addr' = addr
    /\ sb_ret' = "break_push"
    /\ IF inferior # NoPid
       THEN self' = inferior /\ dpc' = "set_breakpoint"
       ELSE self' = NoPid /\ dpc' = "break_push"
    /\ out' = "Set breakpoint"
    /\ io' = "none"
    /\ UNCHANGED << breakpoints, inferior, table, child_status, rip_addr, idx, status,
                    result, proc, spawned, faults, history >>

\* the address is kept in the Inferior only when there is one
BreakPush_OnlyWithoutProcess ==
    /\ UNCHANGED << bt, over, dd, memok, hm >>
    /\ dpc = "break_push"
    /\ breakpoints' = IF inferior = NoPid THEN Append(breakpoints, sb_addr) ELSE breakpoints
    /\ out' = ""
    /\ io' = "none"
    /\ ToPrompt
    /\ UNCHANGED << inferior, table, child_status, proc, spawned, faults >>

\* self.breakpoints.push(addr)
BreakPush ==
    /\ UNCHANGED << bt, over, dd, memok, hm >>
    /\ dpc = "break_push"
    /\ breakpoints' = Append(breakpoints, sb_addr)
    /\ out' = ""
    /\ io' = "none"
    /\ ToPrompt
    /\ UNCHANGED << inferior, table, child_status, proc, spawned, faults >>

\* DebuggerCommand::BreakPoint with an argument parse_address cannot resolve
CmdBreakUnparsed ==
    /\ UNCHANGED << bt, over, dd, memok, hm >>
    /\ dpc = "prompt"
    /\ out' = "Failed to parse a breakpoint"
    /\ io' = "none"
    /\ UNCHANGED << dpc, cmd, breakpoints, inferior, self, table, child_status, dbg_locals,
                    status, result, proc, spawned, faults, history >>

\* DebuggerCommand::Quit
CmdQuit ==
    /\ UNCHANGED << bt, over, dd, memok, hm >>
    /\ dpc = "prompt"
    /\ cmd' = "quit"
    /\ IF inferior # NoPid
       THEN self' = inferior /\ dpc' = "kill"
       ELSE self' = NoPid /\ dpc' = "exited"
    /\ out' = ""
    /\ io' = "none"
    /\ UNCHANGED << breakpoints, inferior, table, child_status, dbg_locals, status, result,
                    proc, spawned, faults, history >>

(***************************************************************************)
(* The traced child: execve, the instructions it runs while resumed, and   *)
(* the signals that reach it from outside the debugger.                    *)
(***************************************************************************)
StoppedBy(q, signal, trapped) ==
    [q EXCEPT !.st = "stopped", !.sig = signal, !.notified = FALSE, !.trapped = trapped]

\* the PTRACE_TRACEME child stops with SIGTRAP when execve completes
TargetExecve(p) ==
    /\ UNCHANGED << bt, over, dd, memok, hm >>
    /\ proc[p].st = "exec"
    /\ proc' = [proc EXCEPT ![p] = StoppedBy(proc[p], "SIGTRAP", FALSE)]
    /\ UNCHANGED << dpc, cmd, breakpoints, inferior, self, table, child_status,
                    dbg_locals, status, result, out, spawned, faults, io, history >>

\* the child after running the instruction at its program counter, going on
\* at next: a single step ends in a SIGTRAP stop
AfterInstr(q, next) ==
    IF q.st = "step"
    THEN StoppedBy([q EXCEPT !.rip = next], "SIGTRAP", FALSE)
    ELSE [q EXCEPT !.rip = next]

\* the successors of child q running one instruction
TargetSteps(q) ==
    IF q.rip \notin Addr
    THEN {StoppedBy(q, "SIGSEGV", FALSE)}
    ELSE CASE q.mem[q.rip] = TrapByte -> {StoppedBy([q EXCEPT !.rip = q.rip + 1], "SIGTRAP", TRUE)}
           [] q.mem[q.rip] = OpExit -> {Zombie("Exited", "")}
           [] q.mem[q.rip] = OpLoop -> {AfterInstr(q, LoopTarget), AfterInstr(q, q.rip + 1)}
           [] OTHER -> {AfterInstr(q, q.rip + 1)}

\* the window of cont between the single-step request and its wait, and the
\* one between the continue request and its wait
InStepWindow(p) == dpc = "cont_stepwait" /\ p = self
InContWindow(p) == dpc = "cont_wait" /\ p = self

TargetRun(p) ==
    /\ UNCHANGED << bt, over, dd, memok, hm >>
    /\ proc[p].st \in {"run", "step"}
    /\ \E q \in TargetSteps(proc[p]) : proc' = [proc EXCEPT ![p] = q]
    /\ ran' = IF InStepWindow(p) /\ proc[p].rip \in Addr /\ ran < MaxCount
              THEN ran + 1 ELSE ran
    /\ lastexec' = IF (InStepWindow(p) \/ InContWindow(p)) /\ proc[p].rip \in Addr
                   THEN [addr |-> proc[p].rip, op |-> proc[p].mem[proc[p].rip]]
                   ELSE lastexec
    /\ UNCHANGED << dpc, cmd, breakpoints, inferior, self, table, child_status,
                    dbg_locals, status, result, out, spawned, faults, io, sbcalls, genuine,
                    clean, pre >>

\* a signal from outside (Ctrl-C on the terminal): signal-delivery-stop
TargetInterrupt(p) ==
    /\ UNCHANGED << bt, over, dd, memok, hm >>
    /\ Executing(p)
    /\ MayFail
    /\ Charge(TRUE)
    /\ proc' = [proc EXCEPT ![p] = StoppedBy(proc[p], "SIGINT", FALSE)]
    /\ UNCHANGED << dpc, cmd, breakpoints, inferior, self, table, child_status,
                    dbg_locals, status, result, out, spawned, io, history >>

\* SIGKILL from outside
TargetKilled(p) ==
    /\ UNCHANGED << bt, over, dd, memok, hm >>
    /\ Executing(p)
    /\ MayFail
    /\ Charge(TRUE)
    /\ proc' = [proc EXCEPT ![p] = Zombie("Signaled", "SIGKILL")]
    /\ UNCHANGED << dpc, cmd, breakpoints, inferior, self, table, child_status,
                    dbg_locals, status, result, out, spawned, io, history >>

Target == \E p \in Pid : TargetExecve(p) \/ TargetRun(p) \/ TargetInterrupt(p) \/ TargetKilled(p)

Next ==
    \/ CmdRun
    \/ CmdCont
    \/ CmdBacktrace
    \/ \E addr \in BreakAddrs : CmdBreak(addr)
    \/ CmdBreakUnparsed
    \/ CmdQuit
    \/ BreakPush
    \/ Kill
    \/ KillWait
    \/ NewSpawn
    \/ NewWait
    \/ NewMatch
    \/ NewLoop
    \/ SetBreakpoint
    \/ ContGetregs
    \/ ContRestore
    \/ ContSetregs
    \/ ContStep
    \/ ContStepWait
    \/ ContCont
    \/ ContWait
    \/ PrintResult
    \/ BtGetregs
    \/ BtFrame
    \/ BtRead
    \/ BtReturn
    \/ Target

Spec == Init /\ [][Next]_vars

(***************************************************************************)
(* Properties.                                                             *)
(***************************************************************************)
Keys(p) == DOMAIN table[p]
\* the breakpoint the running cont found itself parked behind
B == rip_addr - 1

\* C1: in every step, every byte stored in a breakpoint table is the byte the
\* executable has at that address (what memory held before the first trap patch),
\* and an address that stays a key of an Inferior's table keeps its byte; a second
\* set_breakpoint of the address, with the trap already in memory, is such a step.
C1_StoredOriginalNeverOverwritten ==
    [][\A p \in Pid : \A a \in DOMAIN table'[p] :
            /\ table'[p][a] = Image[a]
            /\ a \in Keys(p) => table'[p][a] = table[p][a]]_vars

\* set_breakpoint has just returned from patching an address that was a key
\* already and held the trap byte, and the table still has the original byte
C1_Witness ==
    /\ pre.fn = "set_breakpoint"
    /\ dpc = sb_ret
    /\ io = "ok"
    /\ pre.key
    /\ pre.mem[pre.addr] = TrapByte
    /\ table[self][pre.addr] = Image[pre.addr]
    /\ Image[pre.addr] # TrapByte

\* the running cont went through the whole step-over of a trap the target had
\* executed, with every request served and the step ending in a SIGTRAP stop
SteppedOver ==
    /\ genuine
    /\ clean
    /\ status.kind = "Stopped"
    /\ status.sig = "SIGTRAP"

SetBreakpointReturns == dpc = "set_breakpoint" /\ dpc' = sb_ret

\* C4: when set_breakpoint(A) of an address A that is not a key of the table has
\* its read and its write served, memory at A holds the trap byte afterwards and
\* the table maps A to the byte memory held at A just before the call.
C4_SetBreakpointNewAddress ==
    [][SetBreakpointReturns /\ sb_addr \notin Keys(self) /\ io' = "ok"
        => /\ proc'[self].mem[sb_addr] = TrapByte
           /\ sb_addr \in DOMAIN table'[self]
           /\ table'[self][sb_addr] = proc[self].mem[sb_addr]]_vars

\* set_breakpoint has just patched the exit instruction, which was not a key
C4_Witness ==
    /\ pre.fn = "set_breakpoint"
    /\ dpc = sb_ret
    /\ io = "ok"
    /\ ~pre.key
    /\ pre.mem[pre.addr] = OpExit
    /\ proc[self].mem[pre.addr] = TrapByte
    /\ table[self][pre.addr] = OpExit

\* C5: when the restore step of cont (write_byte of the stored byte to B) is
\* served, memory at B holds the byte the executable has there, the one seen
\* before any set_breakpoint(B), however often B was installed.
C5_RestoreRoundTrip ==
    [][dpc = "cont_restore" /\ dpc' = "cont_setregs" /\ io' = "ok"
        => proc'[self].mem[B] = Image[B]]_vars

\* the restore was served for a breakpoint that is twice in the list, so that
\* set_breakpoint ran for it more than once, and replaced the trap byte
C5_Witness ==
    /\ dpc = "cont_setregs"
    /\ io = "ok"
    /\ pre.fn = "cont"
    /\ pre.mem[pre.addr] = TrapByte
    /\ proc[self].mem[pre.addr] = Image[pre.addr]
    /\ breakpoints = << pre.addr, pre.addr >>

\* C6: new goes on past its match only for a first status Stopped(SIGTRAP); for
\* any other first status, and for a failed spawn, Debugger::run gets None and
\* keeps the Inferior it had; and when new returns Some, set_breakpoint has been
\* called for every address of breakpoints, in order.
C6_NewOnlyOnTrapStop ==
    [][/\ dpc = "new_match" /\ dpc' = "new_loop"
            => status.kind = "Stopped" /\ status.sig = "SIGTRAP"
       /\ dpc = "new_match" /\ dpc' # dpc /\ ~(status.kind = "Stopped" /\ status.sig = "SIGTRAP")
            => dpc' = "prompt" /\ inferior' = inferior /\ out' = "Error starting subprocess"
       /\ dpc = "new_spawn" /\ dpc' # dpc /\ io' = "err"
            => dpc' = "prompt" /\ inferior' = inferior /\ out' = "Error starting subprocess"
       /\ dpc = "new_loop" /\ dpc' = "cont_getregs"
            => /\ inferior' = self
               /\ status.kind = "Stopped" /\ status.sig = "SIGTRAP"
               /\ sbcalls = breakpoints]_vars

\* new has just returned Some after calling set_breakpoint for two addresses
C6_Witness ==
    /\ dpc = "cont_getregs"
    /\ cmd = "run"
    /\ inferior = self
    /\ Len(breakpoints) = 2
    /\ sbcalls = breakpoints

\* C7 as stated: at most one spawned child is live at any time
C7_AtMostOneLive == Cardinality({p \in Pid : Live(p)}) <= 1

\* C8 as stated: when new returns None after the spawn, the child it spawned is
\* not left stopped under trace
C8_NoLeakOnFailedLaunch ==
    [][dpc = "new_match" /\ dpc' = "prompt" => ~PtraceStopped(self)]_vars

\* C9 as stated: when kill returns to Debugger::run, the process of the Inferior
\* is not live
C9_NotLiveAfterKill ==
    [][(dpc = "kill" \/ dpc = "kill_wait") /\ (dpc' = "new_spawn" \/ dpc' = "exited")
        => proc'[self].st \notin {"exec", "run", "step", "stopped"}]_vars

\* C10: when the read or the write of set_breakpoint(A) fails, the failure is
\* printed and the table of the Inferior is as before: A is not added, and the
\* byte stored for A is not changed.
C10_FailedSetBreakpoint ==
    [][SetBreakpointReturns /\ io' \in {"read_err", "write_err"}
        => /\ out' = "Failed to set the breakpoint"
           /\ table'[self] = table[self]]_vars

\* the write of set_breakpoint failed on a stopped child for an address that was
\* not a key, and it is not one now
C10_Witness ==
    /\ pre.fn = "set_breakpoint"
    /\ dpc = sb_ret
    /\ io = "write_err"
    /\ out = "Failed to set the breakpoint"
    /\ ~pre.key
    /\ pre.addr \notin Keys(self)
    /\ PtraceStopped(self)


\* cont is running: the labels of Inferior::cont
InCont ==
    dpc \in {"cont_getregs", "cont_restore", "cont_setregs", "cont_step", "cont_stepwait",
             "cont_cont", "cont_wait"}

\* C11 as stated: no failed request of cont (getregs, the restoring write_byte,
\* setregs, step, the wait after the step, cont, the final wait) aborts the
\* session; cont goes on or returns
C11_ContFailuresRecoverable ==
    [][InCont /\ dpc' # dpc /\ io' \in {"err", "read_err", "write_err"}
        => dpc' # "aborted"]_vars

\* new returns Some to Debugger::run: the step out of its loop
NewReturnsSome == dpc = "new_loop" /\ dpc' = "cont_getregs"

\* C12: Debugger.breakpoints only changes by the push of the address a break
\* command accepted, with or without a process; each launch hands the whole list
\* to set_breakpoint; and when no request of the launch failed, every address of
\* the list is a key of the new Inferior's table with the trap byte in memory when
\* new returns.
C12_BreakpointsReapplied ==
    [][/\ breakpoints' # breakpoints => dpc = "break_push"
       /\ dpc = "break_push" /\ dpc' # dpc => breakpoints' = Append(breakpoints, sb_addr)
       /\ NewReturnsSome => sbcalls = breakpoints
       /\ NewReturnsSome /\ clean
            => \A i \in 1 .. Len(breakpoints) :
                  /\ breakpoints[i] \in DOMAIN table'[self]
                  /\ proc'[self].mem[breakpoints[i]] = TrapByte]_vars

\* the second launch of the session has just returned with two different
\* addresses of the list armed in the new child
C12_Witness ==
    /\ dpc = "cont_getregs"
    /\ cmd = "run"
    /\ self = 2
    /\ inferior = self
    /\ clean
    /\ Len(breakpoints) = 2
    /\ breakpoints[1] # breakpoints[2]
    /\ \A i \in 1 .. 2 : breakpoints[i] \in Keys(self) /\ proc[self].mem[breakpoints[i]] = TrapByte

\* C15 as stated: cont restores the byte at pc-1, rewinds the program counter
\* and single-steps only when the stop it resumes from was the target executing
\* the trap at pc-1
C15_StepOverOnlyAfterTrap ==
    [][\/ dpc = "cont_restore" /\ dpc' = "cont_setregs"
       \/ dpc = "cont_setregs" /\ dpc' = "cont_step"
       \/ dpc = "cont_step" /\ dpc' = "cont_stepwait"
        => genuine]_vars

\* the wait after the single step returns
StepWaitReturns == dpc = "cont_stepwait" /\ dpc' # dpc

\* C16: when the wait after the single step reports Exited, cont returns that
\* status at once: the next thing the debugger does is print it and prompt, with
\* the table as it was and without a request to the process in between.
C16_StepExitedReturns ==
    [][/\ StepWaitReturns /\ status'.kind = "Exited"
            => dpc' = "print_result" /\ result' = status' /\ table' = table
       /\ dpc = "print_result" /\ dpc' # dpc
            => dpc' = "prompt" /\ io' = "none" /\ table' = table /\ proc' = proc]_vars

\* the step-over of a breakpoint on the exit instruction: the single step ran it
\* and cont is returning Exited
C16_Witness ==
    /\ dpc = "print_result"
    /\ genuine
    /\ result = Exited
    /\ ran = 1
    /\ lastexec = [addr |-> B, op |-> OpExit]
    /\ B \in Keys(self)

\* C17: when the wait after the single step reports a stop by a signal other than
\* SIGTRAP, cont panics: the session is over, with no re-arm, no continue and no
\* status returned; nothing the debugger holds changes afterwards.
C17_StepOtherSignalFatal ==
    [][/\ StepWaitReturns /\ status'.kind = "Stopped" /\ status'.sig # "SIGTRAP"
            => dpc' = "aborted" /\ table' = table /\ result' = result /\ proc'[self].mem = proc[self].mem
       /\ dpc = "aborted"
            => dpc' = "aborted" /\ table' = table /\ result' = result /\ out' = out
               /\ inferior' = inferior /\ breakpoints' = breakpoints]_vars

\* the single step of a step-over was cut short by SIGINT and the session is over
C17_Witness ==
    /\ dpc = "aborted"
    /\ genuine
    /\ status.kind = "Stopped"
    /\ status.sig = "SIGINT"
    /\ proc[self].mem[B] = Image[B]
    /\ B \in Keys(self)

\* C19 as stated: once a cont has returned Exited or Signaled for a process, no
\* later continue or backtrace command issues a register read against it, and a
\* later set_breakpoint issues no memory request against it.
C19_NoRequestAfterLifecycleEnd ==
    [][(self # NoPid) /\ over[self]
         => /\ ~(dpc = "cont_getregs" /\ dpc' # dpc)
            /\ ~(dpc = "bt_getregs" /\ dpc' # dpc)
            /\ (SetBreakpointReturns => io' = "not_running")]_vars

\* control is back at the caller with what the call left: after a launch, after
\* a set_breakpoint, after a cont that returned Stopped
AtCaller ==
    \/ dpc = "cont_getregs" /\ cmd = "run"
    \/ dpc = "break_push" /\ inferior # NoPid
    \/ dpc = "print_result" /\ result.kind = "Stopped"

\* every key of the table of Inferior p holds the trap byte in the child's memory
Armed(p) == \A a \in Keys(p) : proc[p].mem[a] = TrapByte

\* cont is between its restore and its re-arm
Restored ==
    \/ dpc \in {"cont_setregs", "cont_step", "cont_stepwait"}
    \/ dpc = "set_breakpoint" /\ sb_ret = "cont_cont"

\* C20 as stated: with control back at the caller and the process of the
\* Inferior stopped, every key of its table holds 0xcc in memory if no write_byte
\* on it has failed; while the debugger runs, a key of a live process holds its
\* original byte only between the restore and the re-arm of cont.
C20_KeysHoldTrapAtCaller ==
    /\ AtCaller /\ self # NoPid /\ PtraceStopped(self) /\ memok[self]
         => Armed(self)
    /\ self # NoPid /\ Live(self) /\ memok[self] /\ ~Restored /\ dpc # "aborted"
         => Armed(self)

\* C21 as stated: when the wait after the single step reports Signaled, cont
\* returns that status as it does for Exited: the next thing the debugger does is
\* print it, and no continue request is issued to the process.
C21_StepSignaledReturns ==
    [][/\ StepWaitReturns /\ status'.kind = "Signaled"
            => dpc' = "print_result" /\ result' = status'
       /\ dpc = "cont_cont" /\ dpc' # dpc => proc[self].st # "reaped"]_vars

(***************************************************************************)
(* write_byte on its own: a stopped child whose memory is one of Memories, *)
(* and one call of write_byte(addr, val) for any address and any of Vals.  *)
(***************************************************************************)
Memories ==
    { Image,
      [a \in Addr |-> 0],
      [a \in Addr |-> 255],
      [a \in Addr |-> TrapByte],
      [a \in Addr |-> (a * 37 + 11) % 256] }

Vals == {0, 1, 128, TrapByte, 255}

InitWB ==
    /\ dpc = "write_byte"
    /\ cmd = "none"
    /\ breakpoints = << >>
    /\ inferior = 1
    /\ self = 1
    /\ table = [p \in Pid |-> EmptyTable]
    /\ child_status = [p \in Pid |-> FALSE]
    /\ rip_addr = 0
    /\ idx = 0
    /\ sb_addr = 0
    /\ sb_ret = ""
    /\ status = Stopped("SIGTRAP", Entry)
    /\ result = NoStatus
    /\ out = ""
    /\ \E m \in Memories :
         proc = [p \in Pid |->
                   IF p = 1
                   THEN [StoppedBy(Unborn, "SIGTRAP", FALSE) EXCEPT !.notified = TRUE, !.mem = m]
                   ELSE Unborn]
    /\ spawned = 1
    /\ faults = 0
    /\ io = "none"
    /\ sbcalls = << >>
    /\ ran = 0
    /\ lastexec = NoExec
    /\ genuine = FALSE
    /\ clean = TRUE
    /\ pre = NoCall
    /\ bt = NoWalk
    /\ over = [p \in Pid |-> FALSE]
    /\ dd = NoDedup
    /\ memok = [p \in Pid |-> TRUE]
    /\ hm = NoGame

\* self.write_byte(addr, val)
WriteByte(addr, val) ==
    /\ UNCHANGED << bt, over, dd, memok, hm >>
    /\ dpc = "write_byte"
    /\ \E o \in WriteByteOutcomes(self) :
        /\ proc' = [proc EXCEPT ![self] = WriteByteProc(self, addr, val, o)]
        /\ io' = o
        /\ Charge(o # "ok")
    /\ pre' = Call("write_byte", self, addr, val)
    /\ dpc' = "written"
    /\ out' = ""
    /\ UNCHANGED << cmd, breakpoints, inferior, self, table, child_status, dbg_locals,
                    status, result, spawned, sbcalls, ran, lastexec, genuine, clean >>

NextWB == \E addr \in Addr, val \in Vals : WriteByte(addr, val)

SpecWB == InitWB /\ [][NextWB]_vars

\* C3: after write_byte(A, val), every byte of target memory other than the one at
\* A (offset A mod 8 of the aligned word that holds A) is what it was before the
\* call: the other 7 bytes of that word and all other words are untouched.
C3_WriteByteOnlyTargetByte ==
    pre.fn = "write_byte"
        => \A a \in Addr : a # pre.addr => proc[self].mem[a] = pre.mem[a]

\* a served write_byte to the last byte of the first word changed that byte, with
\* different bytes on both sides of it
C3_Witness ==
    /\ pre.fn = "write_byte"
    /\ io = "ok"
    /\ pre.addr = WordSize - 1
    /\ proc[self].mem[pre.addr] = pre.val
    /\ pre.mem[pre.addr] # pre.val
    /\ pre.mem[pre.addr - 1] \notin {pre.val, pre.mem[pre.addr]}
    /\ pre.mem[pre.addr + 1] \notin {pre.val, pre.mem[pre.addr]}

(***************************************************************************)
(* print_backtrace on its own: a child stopped anywhere in the code, with  *)
(* any of the three frame bases and one of Stacks, and one backtrace       *)
(* command.                                                                *)
(***************************************************************************)
\* MainStack with one word replaced
Patched(a, w) == [MainStack EXCEPT ![a] = w]

Stacks ==
    { MainStack,
      Patched(GBp + 8, RetInStart),   \* g was called from code without debug information
      Patched(GBp, GBp),              \* the frame of g names itself as its caller's
      Patched(FBp, 0) }               \* the chain breaks below main

InitBT ==
    /\ dpc = "bt_getregs"
    /\ cmd = "backtrace"
    /\ breakpoints = << >>
    /\ inferior = 1
    /\ self = 1
    /\ table = [p \in Pid |-> EmptyTable]
    /\ child_status = [p \in Pid |-> FALSE]
    /\ rip_addr = 0
    /\ idx = 0
    /\ sb_addr = 0
    /\ sb_ret = ""
    /\ status = NoStatus
    /\ result = NoStatus
    /\ out = ""
    /\ \E rip \in Addr, rbp \in {GBp, FBp, MainBp}, stack \in Stacks :
         proc = [p \in Pid |->
                   IF p = 1
                   THEN [StoppedBy(Unborn, "SIGINT", FALSE) EXCEPT
                           !.notified = TRUE, !.rip = rip, !.rbp = rbp, !.stack = stack]
                   ELSE Unborn]
    /\ spawned = 1
    /\ faults = 0
    /\ io = "none"
    /\ sbcalls = << >>
    /\ ran = 0
    /\ lastexec = NoExec
    /\ genuine = FALSE
    /\ clean = TRUE
    /\ pre = NoCall
    /\ bt = NoWalk
    /\ over = [p \in Pid |-> FALSE]
    /\ dd = NoDedup
    /\ memok = [p \in Pid |-> TRUE]
    /\ hm = NoGame

NextBT ==
    \/ BtGetregs
    \/ BtFrame
    \/ BtRead
    \/ BtReturn

\* the debugger's single thread runs print_backtrace on
SpecBT == InitBT /\ [][NextBT]_vars /\ WF_vars(NextBT)

\* from instruction pointer ip and frame base bp of child q, the saved frame
\* bases lead to a frame of main within k more frames
RECURSIVE ChainToMain(_, _, _, _)
ChainToMain(q, ip, bp, k) ==
    IF FuncOf(ip) = "main" THEN TRUE
    ELSE IF k = 0 THEN FALSE
    ELSE /\ Readable(q, bp + 8)
         /\ Readable(q, bp)
         /\ ChainToMain(q, ReadWord(q, bp + 8), ReadWord(q, bp), k - 1)

WellFormed(q) == ChainToMain(q, q.rip, q.rbp, MaxFrames - 1)

\* C13: print_backtrace of a stopped child whose frame chain leads to main ends;
\* when it ends without a failed request the last frame it printed is main; and
\* it reads no frame once it has printed main.
C13_BacktraceTerminatesAtMain ==
    /\ (WellFormed(proc[inferior]) => <>(dpc = "bt_done"))
    /\ [](WellFormed(proc[inferior]) /\ dpc = "bt_done" /\ ~bt.err => bt.last = "main")
    /\ [][dpc = "bt_read" /\ dpc' # dpc => bt.last # "main"]_vars

\* a walk from g through f has ended at main: three frames, no failure
C13_Witness ==
    /\ dpc = "bt_done"
    /\ WellFormed(proc[inferior])
    /\ FuncOf(proc[inferior].rip) = "g"
    /\ ~bt.err
    /\ bt.n = 3
    /\ bt.last = "main"

\* C18: a failed read of a saved word ends the walk with the error: the frames
\* printed so far stay as they are and no frame is printed after it; an address
\* the resolver does not know is printed as the frame "undefined" and the walk
\* goes on to read the next frame.
C18_ReadFailureAbortsWalk ==
    [][/\ dpc = "bt_read" /\ dpc' # dpc /\ io' # "ok"
            => /\ dpc' = "bt_done"
               /\ bt'.err
               /\ bt'.n = bt.n
               /\ bt'.last = bt.last
       /\ (bt'.n # bt.n \/ bt'.last # bt.last) /\ dpc # "bt_done" => dpc = "bt_frame"
       /\ dpc = "bt_done" /\ dpc' # dpc => dpc' = "prompt" /\ out' = ""
       /\ dpc = "bt_frame" /\ dpc' # dpc /\ FuncOf(bt.ip) = "undefined"
            => /\ out' = "undefined"
               /\ bt'.n = (IF bt.n < MaxFrames THEN bt.n + 1 ELSE bt.n)
               /\ ~bt'.err
               /\ dpc' = "bt_read"]_vars

\* g was called from code the resolver does not know: g and the frame
\* "undefined" were printed, then a read failed and the walk ended with the error
C18_Witness ==
    /\ dpc = "bt_done"
    /\ bt.err
    /\ bt.n = 2
    /\ bt.last = "undefined"
    /\ FuncOf(proc[inferior].rip) = "g"
    /\ io = "err"

(***************************************************************************)
(* week1 warmup: dedup, called with any vector of up to MaxLen elements of *)
(* 0 .. MaxVal.  index counts from 0 as in the code: v[index] of the code  *)
(* is the element dd.v[dd.index + 1].                                      *)
(***************************************************************************)
RECURSIVE SeqsUpTo(_)
SeqsUpTo(n) ==
    IF n = 0 THEN {<< >>}
    ELSE LET shorter == SeqsUpTo(n - 1)
         IN shorter \cup {Append(w, x) : w \in {u \in shorter : Len(u) = n - 1}, x \in 0 .. MaxVal}

\* v.remove(index)
Remove(v, index) == SubSeq(v, 1, index) \o SubSeq(v, index + 2, Len(v))

\* dedup(&mut v) is entered: index = 1 and seen is empty
DedupCall(v) ==
    /\ dd.pc = "none"
    /\ dd' = [pc |-> "loop", orig |-> v, v |-> v, index |-> 1, seen |-> {}]
    /\ UNCHANGED << dpc, cmd, breakpoints, inferior, self, table, child_status, dbg_locals,
                    status, result, out, proc, spawned, faults, io, history, bt, over, memok, hm >>

\* one test of the while condition, and one turn of the loop when it holds
DedupStep ==
    /\ dd.pc = "loop"
    /\ IF dd.index < Len(dd.v)
       THEN IF dd.v[dd.index + 1] \in dd.seen
            THEN dd' = [dd EXCEPT !.v = Remove(dd.v, dd.index)]
            ELSE dd' = [dd EXCEPT !.seen = dd.seen \cup {dd.v[dd.index + 1]},
                                  !.index = dd.index + 1]
       ELSE dd' = [dd EXCEPT !.pc = "done"]
    /\ UNCHANGED << dpc, cmd, breakpoints, inferior, self, table, child_status, dbg_locals,
                    status, result, out, proc, spawned, faults, io, history, bt, over, memok, hm >>

NextDedup ==
    \/ \E v \in SeqsUpTo(MaxLen) : DedupCall(v)
    \/ DedupStep

SpecDedup == Init /\ [][NextDedup]_vars

\* the elements of v without those that occurred before, in the order of v
RECURSIVE FirstOccurrences(_)
FirstOccurrences(v) ==
    IF v = << >> THEN << >>
    ELSE LET front == FirstOccurrences(SubSeq(v, 1, Len(v) - 1))
             x == v[Len(v)]
         IN IF \E i \in 1 .. Len(front) : front[i] = x THEN front ELSE Append(front, x)

\* C14 as stated: when dedup returns, v holds each distinct value of the vector
\* it was called with exactly once, in the order of first occurrence
C14_DedupKeepsFirstOccurrences ==
    dd.pc = "done" => dd.v = FirstOccurrences(dd.orig)

(***************************************************************************)
(* week1 hangman: main with a secret word of 1 .. MaxWord letters out of   *)
(* 0 .. MaxVal and any guesses, of which the model follows MaxGuesses.     *)
(***************************************************************************)
Words == SeqsUpTo(MaxWord) \ {<< >>}

\* main up to the while loop: every index starts unrevealed
HangmanMain(secret_word) ==
    /\ hm.pc = "none"
    /\ hm' = [pc |-> "while",
              secret_word_chars |-> secret_word,
              revealed_indexes |-> [i \in 1 .. Len(secret_word) |-> FALSE],
              guessed_so_far |-> << >>,
              num_guess_left |-> NUM_INCORRECT_GUESSES,
              printed |-> "Welcome to CS110L Hangman!"]
    /\ UNCHANGED << dpc, cmd, breakpoints, inferior, self, table, child_status, dbg_locals,
                    status, result, out, proc, spawned, faults, io, history, bt, over,
                    dd, memok >>

\* print_result(num_guess_left, &secret_word)
print_result(num_guess_left) ==
    IF num_guess_left = 0
    THEN "Sorry, you ran out of guesses!"
    ELSE "Congratulations you guessed the secret word"

\* the test of `while 0 < num_guess_left`: into the body, or on to print_result
HangmanWhile ==
    /\ hm.pc = "while"
    /\ IF 0 < hm.num_guess_left
       THEN hm' = [hm EXCEPT !.pc = "get_guess", !.printed = "Please guess a letter: "]
       ELSE hm' = [hm EXCEPT !.pc = "done", !.printed = print_result(hm.num_guess_left)]
    /\ UNCHANGED << dpc, cmd, breakpoints, inferior, self, table, child_status, dbg_locals,
                    status, result, out, proc, spawned, faults, io, history, bt, over,
                    dd, memok >>

\* process_user_input: the indexes holding c are revealed
Reveal(revealed_indexes, secret_word_chars, c) ==
    [i \in 1 .. Len(secret_word_chars) |->
        IF secret_word_chars[i] = c THEN TRUE ELSE revealed_indexes[i]]

\* process_user_input: the guesses left after the guess c
process_user_input(secret_word_chars, c, num_guess_left) ==
    IF \E i \in 1 .. Len(secret_word_chars) : secret_word_chars[i] = c
    THEN num_guess_left
    ELSE num_guess_left - 1

\* the rest of the loop body for the guess c
HangmanGuess(c) ==
    /\ hm.pc = "get_guess"
    /\ Len(hm.guessed_so_far) < MaxGuesses
    /\ hm' = [hm EXCEPT
                !.pc = "while",
                !.revealed_indexes = Reveal(hm.revealed_indexes, hm.secret_word_chars, c),
                !.num_guess_left = process_user_input(hm.secret_word_chars, c, hm.num_guess_left),
                !.guessed_so_far = Append(hm.guessed_so_far, c),
                !.printed = IF process_user_input(hm.secret_word_chars, c, hm.num_guess_left)
                               = hm.num_guess_left
                            THEN "" ELSE "Sorry, that letter is not in the word"]
    /\ UNCHANGED << dpc, cmd, breakpoints, inferior, self, table, child_status, dbg_locals,
                    status, result, out, proc, spawned, faults, io, history, bt, over,
                    dd, memok >>

NextHangman ==
    \/ \E w \in Words : HangmanMain(w)
    \/ HangmanWhile
    \/ \E c \in 0 .. MaxVal : HangmanGuess(c)

SpecHangman == Init /\ [][NextHangman]_vars

\* every letter of the secret word is revealed
AllRevealed == \A i \in 1 .. Len(hm.revealed_indexes) : hm.revealed_indexes[i]

\* C22 as stated: the game asks for a guess only while guesses are left and
\* some letter is still hidden, so it ends as soon as the word is revealed; and
\* when it has ended with the word revealed and guesses left, the win is printed.
C22_GameEndsWhenRevealed ==
    /\ hm.pc = "get_guess" => 0 < hm.num_guess_left /\ ~AllRevealed
    /\ hm.pc = "done" /\ AllRevealed /\ 0 < hm.num_guess_left
         => hm.printed = "Congratulations you guessed the secret word"

====
